---------------------------- MODULE Spec2Model ----------------------------
(***************************************************************************)
(* Row measurement and composition of the block renderer                   *)
(* (core/renderers/measurables/rows.js).                                   *)
(*                                                                         *)
(* One row object is modelled: Init is the state right after one of the    *)
(* five constructors ran; the actions are the methods of the row           *)
(* (populate, measure, getFirstSpacer, getLastSpacer) and the writes the   *)
(* render pass makes to the row's package-visible fields (pushing          *)
(* measurables onto `elements`, setting minWidth / minHeight).             *)
(***************************************************************************)
EXTENDS Integers, Sequences, FiniteSets

-----------------------------------------------------------------------------
(* Bounds of the model. *)

\* Longest list of elements a row holds.
MaxElems == 2
\* Largest width / height / startY of a measurable.
MaxDim == 1
\* Largest connectedBlockWidth of an input.
MaxConn == 3
\* Most calls of measure in a row with nothing else in between.
MaxMeasures == 2

Dims == 0 .. MaxDim
ConnDims == 0 .. MaxConn

-----------------------------------------------------------------------------
(* Renderer constants read by populate and measure.  They are set         *)
(* outside rows.js (Blockly.blockRendering.constants); only their being    *)
(* positive numbers matters here.                                          *)

LARGE_PADDING == 2
MEDIUM_PADDING == 1
NOTCH_HEIGHT == 1
\* The connectionWidth of an input: the width of the renderer's tab.
TAB_WIDTH == 2

\* Blockly.NEXT_STATEMENT, the type of a statement input of a block.
NEXT_STATEMENT == 3

\* JavaScript null.
null == [type |-> "null"]

Max(a, b) == IF a >= b THEN a ELSE b

-----------------------------------------------------------------------------
(* Measurables.  Every element of a row answers isSpacer() and carries a   *)
(* type, a width and a height; hats carry startY; inputs carry isInput,    *)
(* connectedBlockWidth and connectionWidth.                                *)
(*                                                                         *)
(* The sets below are the measurables the render pass hands to a row.      *)
(* Widths vary over the spacers and heights over the other elements: the   *)
(* spacers are as tall as an element gets, the inputs are as narrow.       *)

Measurable(type, spacer, input, w, h, sy, cbw, cw) ==
    [type |-> type, spacer |-> spacer, isInput |-> input, width |-> w,
     height |-> h, startY |-> sy, connectedBlockWidth |-> cbw,
     connectionWidth |-> cw]

RoundCorners ==
    {Measurable("round corner", FALSE, FALSE, MaxDim, h, 0, 0, 0) :
        h \in Dims}
Hats == {Measurable("hat", FALSE, FALSE, MaxDim, h, sy, 0, 0) :
            h \in Dims, sy \in Dims}
NextConnections ==
    {Measurable("next connection", FALSE, FALSE, MaxDim, h, 0, 0, 0) :
        h \in Dims}
InRowSpacer(width) ==
    {Measurable("in-row spacer", TRUE, FALSE, width, MaxDim, 0, 0, 0)}
InRowSpacers == UNION {InRowSpacer(w) : w \in Dims}
Fields == {Measurable("field", FALSE, FALSE, MaxDim, h, 0, 0, 0) :
              h \in Dims}
StatementInputs ==
    {Measurable("statement input", FALSE, TRUE, 0, MaxDim, 0, cbw, 0) :
        cbw \in ConnDims}
ExternalValueInputs ==
    {Measurable("external value input", FALSE, TRUE, 0, MaxDim, 0, cbw,
                TAB_WIDTH) : cbw \in ConnDims}

\* elem.isSpacer(): the call.
IsSpacer(elem) == elem.spacer

\* elem.isSpacer: the method itself, read as a condition.  A function object
\* is truthy whatever the element is.
IsSpacerProperty(elem) == TRUE

-----------------------------------------------------------------------------
(* The host block, as far as each populate reads it. *)

\* block.hat: unset (""), 'cap', or another style name.
HatStyles == {"", "cap", "none"}
\* block.inputList, by the types of its inputs (1 is a value input).
InputLists == {<<>>, <<NEXT_STATEMENT>>, <<1>>}
\* getPreviousBlock(): no block ("none"), a block whose next block is this
\* one ("above"), or a block holding this one in a statement input.
PreviousBlocks == {"none", "above", "around"}

\* What TopRow.populate reads: block.hat, Blockly.BlockSvg.START_HAT,
\* block.previousConnection, getPreviousBlock(), block.outputConnection,
\* block.inputList and isCollapsed().  A previous block needs the previous
\* connection it hangs on.
TopRowBlocks ==
    {b \in [hat : HatStyles, START_HAT : BOOLEAN,
            previousConnection : BOOLEAN, previousBlock : PreviousBlocks,
            outputConnection : BOOLEAN, inputList : InputLists,
            collapsed : BOOLEAN] :
        b.previousBlock # "none" => b.previousConnection}

\* What BottomRow.populate reads: block.nextConnection, getNextBlock(),
\* block.outputConnection, block.inputList and getInputsInline().  A next
\* block needs the next connection it hangs on.
BottomRowBlocks ==
    {b \in [nextConnection : BOOLEAN, nextBlock : BOOLEAN,
            outputConnection : BOOLEAN, inputList : InputLists,
            inputsInline : BOOLEAN] :
        b.nextBlock => b.nextConnection}

-----------------------------------------------------------------------------
(* Constructors. *)

Row ==
    [type |-> "row", elements |-> <<>>, height |-> 0, width |-> 0,
     minHeight |-> 0, minWidth |-> 0, widthWithConnectedBlocks |-> 0,
     yPos |-> 0, xPos |-> 0, hasExternalInput |-> FALSE,
     hasStatement |-> FALSE, hasInlineInput |-> FALSE,
     hasDummyInput |-> FALSE, hasJaggedEdge |-> FALSE]

\* The fields a subclass constructor adds to (or overwrites in) the base row.
Extend(r, more) ==
    [f \in DOMAIN r \cup DOMAIN more |->
        IF f \in DOMAIN more THEN more[f] ELSE r[f]]

TopRow ==
    Extend(Row, [type |-> "top row", startY |-> 0,
                 hasPreviousConnection |-> FALSE, connection |-> null])

BottomRow ==
    Extend(Row, [type |-> "bottom row", hasNextConnection |-> FALSE,
                 connection |-> null, overhangY |-> 0,
                 hasFixedWidth |-> FALSE])

\* SpacerRow does not call the base constructor: it has only these fields.
SpacerRow(height, width, spacer) ==
    [type |-> "between-row spacer", width |-> width, height |-> height,
     followsStatement |-> FALSE, widthWithConnectedBlocks |-> 0,
     elements |-> <<spacer>>]

InputRow == Extend(Row, [type |-> "input row"])

-----------------------------------------------------------------------------
(* What the constructors of the measurables that populate creates return. *)
(* Their sizes are renderer constants.                                     *)

SquareCorner == Measurable("square corner", FALSE, FALSE, 0, 0, 0, 0, 0)
RoundCorner == Measurable("round corner", FALSE, FALSE, 1, 1, 0, 0, 0)
Hat == Measurable("hat", FALSE, FALSE, 2, 2, 1, 0, 0)
PreviousConnection ==
    Measurable("previous connection", FALSE, FALSE, 2, NOTCH_HEIGHT, 0, 0, 0)
NextConnection ==
    Measurable("next connection", FALSE, FALSE, 2, NOTCH_HEIGHT, 0, 0, 0)

-----------------------------------------------------------------------------
(* populate *)

Push(elements, elem) == Append(elements, elem)

HasHat(block) == IF block.hat # "" THEN block.hat = "cap" ELSE block.START_HAT

\* Mutant: the previous connection is added whether or not there is a hat.
TopRowPopulate_HatAndPrevious(r, block) ==
    LET hasHat == HasHat(block)
        hasPrevious == block.previousConnection
        squareCorner == \/ block.outputConnection
                        \/ hasHat
                        \/ block.previousBlock = "above"
        r1 == [r EXCEPT !.elements =
                  Push(@, IF squareCorner THEN SquareCorner ELSE RoundCorner)]
        r2 == IF hasHat
                THEN [r1 EXCEPT !.elements = Push(@, Hat),
                                !.startY = Hat.startY]
                ELSE r1
        r3 == IF hasPrevious
                THEN [r2 EXCEPT !.hasPreviousConnection = TRUE,
                                !.connection = PreviousConnection,
                                !.elements = Push(@, PreviousConnection)]
                ELSE r2
        precedesStatement == /\ Len(block.inputList) # 0
                             /\ block.inputList[1] = NEXT_STATEMENT
    IN  [r3 EXCEPT !.minHeight =
            IF precedesStatement /\ ~block.collapsed
              THEN LARGE_PADDING ELSE MEDIUM_PADDING]

TopRowPopulate(r, block) ==
    LET hasHat == HasHat(block)
        hasPrevious == block.previousConnection
        squareCorner == \/ block.outputConnection
                        \/ hasHat
                        \/ block.previousBlock = "above"
        r1 == [r EXCEPT !.elements =
                  Push(@, IF squareCorner THEN SquareCorner ELSE RoundCorner)]
        r2 == IF hasHat
                THEN [r1 EXCEPT !.elements = Push(@, Hat),
                                !.startY = Hat.startY]
              ELSE IF hasPrevious
                THEN [r1 EXCEPT !.hasPreviousConnection = TRUE,
                                !.connection = PreviousConnection,
                                !.elements = Push(@, PreviousConnection)]
              ELSE r1
        precedesStatement == /\ Len(block.inputList) # 0
                             /\ block.inputList[1] = NEXT_STATEMENT
    IN  [r2 EXCEPT !.minHeight =
            IF precedesStatement /\ ~block.collapsed
              THEN LARGE_PADDING ELSE MEDIUM_PADDING]

\* Mutant: the corner is chosen by the output connection alone.
BottomRowPopulate_CornerIgnoresNextBlock(r, block) ==
    LET followsStatement ==
            /\ Len(block.inputList) # 0
            /\ block.inputList[Len(block.inputList)] = NEXT_STATEMENT
        r1 == [r EXCEPT !.hasNextConnection = block.nextConnection,
                        !.hasFixedWidth =
                            followsStatement /\ block.inputsInline,
                        !.minHeight = IF followsStatement
                                        THEN LARGE_PADDING ELSE NOTCH_HEIGHT]
        squareCorner == block.outputConnection
        r2 == [r1 EXCEPT !.elements =
                  Push(@, IF squareCorner THEN SquareCorner ELSE RoundCorner)]
    IN  IF r2.hasNextConnection
          THEN [r2 EXCEPT !.connection = NextConnection,
                          !.elements = Push(@, NextConnection)]
          ELSE r2

BottomRowPopulate(r, block) ==
    LET followsStatement ==
            /\ Len(block.inputList) # 0
            /\ block.inputList[Len(block.inputList)] = NEXT_STATEMENT
        \* hasFixedWidth is kept by its truth value.
        r1 == [r EXCEPT !.hasNextConnection = block.nextConnection,
                        !.hasFixedWidth =
                            followsStatement /\ block.inputsInline,
                        !.minHeight = IF followsStatement
                                        THEN LARGE_PADDING ELSE NOTCH_HEIGHT]
        squareCorner == block.outputConnection \/ block.nextBlock
        r2 == [r1 EXCEPT !.elements =
                  Push(@, IF squareCorner THEN SquareCorner ELSE RoundCorner)]
    IN  IF r2.hasNextConnection
          THEN [r2 EXCEPT !.connection = NextConnection,
                          !.elements = Push(@, NextConnection)]
          ELSE r2

-----------------------------------------------------------------------------
(* measure *)

BaseRowError == "Unexpected attempt to measure a base Row."

\* Mutant: the base measure returns without throwing.
RowMeasure_Silent(r) == [row |-> r, thrown |-> ""]

\* Row.prototype.measure: throws; nothing is assigned.
RowMeasure(r) == [row |-> r, thrown |-> BaseRowError]

\* The loop body of TopRow.prototype.measure, from element e on.
RECURSIVE TopRowMeasureLoop(_, _)
TopRowMeasureLoop(r, e) ==
    IF e > Len(r.elements) THEN r
    ELSE LET elem == r.elements[e]
             r1 == [r EXCEPT !.width = @ + elem.width]
             r2 == IF ~IsSpacer(elem) /\ elem.type = "hat"
                     THEN [r1 EXCEPT !.startY = elem.startY,
                                     !.height = @ + elem.height]
                     ELSE r1
             r3 == IF ~IsSpacer(elem)
                     THEN [r2 EXCEPT !.height = Max(@, elem.height)]
                     ELSE r2
         IN  TopRowMeasureLoop(r3, e + 1)

\* Mutant: the width starts from 0 instead of minWidth.
TopRowMeasure_IgnoresMinWidth(r) ==
    LET r0 == [r EXCEPT !.width = 0, !.height = r.minHeight]
        r1 == TopRowMeasureLoop(r0, 1)
    IN  [row |-> [r1 EXCEPT !.widthWithConnectedBlocks = r1.width],
         thrown |-> ""]

\* Mutant: width and height are not reset before the loop.
TopRowMeasure_Accumulates(r) ==
    LET r1 == TopRowMeasureLoop(r, 1)
    IN  [row |-> [r1 EXCEPT !.widthWithConnectedBlocks = r1.width],
         thrown |-> ""]

\* Mutant: the loop starts at the second element.
TopRowMeasure_SkipsFirst(r) ==
    LET r0 == [r EXCEPT !.width = r.minWidth, !.height = r.minHeight]
        r1 == TopRowMeasureLoop(r0, 2)
    IN  [row |-> [r1 EXCEPT !.widthWithConnectedBlocks = r1.width],
         thrown |-> ""]

TopRowMeasure(r) ==
    LET r0 == [r EXCEPT !.width = r.minWidth, !.height = r.minHeight]
        r1 == TopRowMeasureLoop(r0, 1)
    IN  [row |-> [r1 EXCEPT !.widthWithConnectedBlocks = r1.width],
         thrown |-> ""]

\* The loop body of BottomRow.prototype.measure, from element e on.
RECURSIVE BottomRowMeasureLoop(_, _)
BottomRowMeasureLoop(r, e) ==
    IF e > Len(r.elements) THEN r
    ELSE LET elem == r.elements[e]
             r1 == [r EXCEPT !.width = @ + elem.width]
             r2 == IF ~IsSpacer(elem) /\ elem.type = "next connection"
                     THEN [r1 EXCEPT !.height = @ + elem.height,
                                     !.overhangY = elem.height]
                     ELSE r1
             r3 == IF ~IsSpacer(elem)
                     THEN [r2 EXCEPT !.height = Max(@, elem.height)]
                     ELSE r2
         IN  BottomRowMeasureLoop(r3, e + 1)

\* Mutant: widthWithConnectedBlocks is not assigned.
BottomRowMeasure_KeepsConnectedWidth(r) ==
    LET r0 == [r EXCEPT !.width = r.minWidth, !.height = r.minHeight]
    IN  [row |-> BottomRowMeasureLoop(r0, 1), thrown |-> ""]

BottomRowMeasure(r) ==
    LET r0 == [r EXCEPT !.width = r.minWidth, !.height = r.minHeight]
        r1 == BottomRowMeasureLoop(r0, 1)
    IN  [row |-> [r1 EXCEPT !.widthWithConnectedBlocks = r1.width],
         thrown |-> ""]

\* SpacerRow.prototype.measure: a no-op.
SpacerRowMeasure(r) == [row |-> r, thrown |-> ""]

\* The loop body of InputRow.prototype.measure, from element e on; acc is
\* the local connectedBlockWidths.
RECURSIVE InputRowMeasureLoop(_, _, _)
InputRowMeasureLoop(r, acc, e) ==
    IF e > Len(r.elements) THEN [row |-> r, connectedBlockWidths |-> acc]
    ELSE LET elem == r.elements[e]
             r1 == [r EXCEPT !.width = @ + elem.width]
             acc1 == IF elem.isInput /\ elem.type = "statement input"
                       THEN acc + elem.connectedBlockWidth
                     ELSE IF /\ elem.isInput
                             /\ elem.type = "external value input"
                             /\ elem.connectedBlockWidth # 0
                       THEN acc + (elem.connectedBlockWidth
                                     - elem.connectionWidth)
                     ELSE acc
             r2 == IF ~IsSpacer(elem)
                     THEN [r1 EXCEPT !.height = Max(@, elem.height)]
                     ELSE r1
         IN  InputRowMeasureLoop(r2, acc1, e + 1)

\* Mutant: the height starts from 0 instead of minHeight.
InputRowMeasure_IgnoresMinHeight(r) ==
    LET r0 == [r EXCEPT !.width = r.minWidth, !.height = 0]
        out == InputRowMeasureLoop(r0, 0, 1)
    IN  [row |-> [out.row EXCEPT !.widthWithConnectedBlocks =
                      out.row.width + out.connectedBlockWidths],
         thrown |-> ""]

\* Mutant: the connected blocks' widths are subtracted.
InputRowMeasure_SubtractsConnected(r) ==
    LET r0 == [r EXCEPT !.width = r.minWidth, !.height = r.minHeight]
        out == InputRowMeasureLoop(r0, 0, 1)
    IN  [row |-> [out.row EXCEPT !.widthWithConnectedBlocks =
                      out.row.width - out.connectedBlockWidths],
         thrown |-> ""]

InputRowMeasure(r) ==
    LET r0 == [r EXCEPT !.width = r.minWidth, !.height = r.minHeight]
        out == InputRowMeasureLoop(r0, 0, 1)
    IN  [row |-> [out.row EXCEPT !.widthWithConnectedBlocks =
                      out.row.width + out.connectedBlockWidths],
         thrown |-> ""]

\* row.measure(), dispatched on the class of the row.
Measure(r) ==
    CASE r.type = "row" -> RowMeasure(r)
      [] r.type = "top row" -> TopRowMeasure(r)
      [] r.type = "bottom row" -> BottomRowMeasure(r)
      [] r.type = "between-row spacer" -> SpacerRowMeasure(r)
      [] r.type = "input row" -> InputRowMeasure(r)

-----------------------------------------------------------------------------
(* getFirstSpacer / getLastSpacer.  The result is the index of the element *)
(* returned, 0 for null.                                                   *)

\* for (var i = 0, elem; elem = this.elements[i]; i++): from index i on.
RECURSIVE GetFirstSpacerLoop(_, _)
GetFirstSpacerLoop(elements, i) ==
    IF i > Len(elements) THEN 0
    ELSE IF IsSpacerProperty(elements[i]) THEN i
    ELSE GetFirstSpacerLoop(elements, i + 1)

GetFirstSpacer(r) == GetFirstSpacerLoop(r.elements, 1)

\* for (var i = length - 1, elem; elem = this.elements[i]; i--): from i down.
RECURSIVE GetLastSpacerLoop(_, _)
GetLastSpacerLoop(elements, i) ==
    IF i < 1 THEN 0
    ELSE IF IsSpacerProperty(elements[i]) THEN i
    ELSE GetLastSpacerLoop(elements, i - 1)

GetLastSpacer(r) == GetLastSpacerLoop(r.elements, Len(r.elements))

-----------------------------------------------------------------------------
(* State. *)

VARIABLES
    row,        \* the row object
    last,       \* the last operation on the row: its name, the block it
                \* was given (populate), what it threw and what it returned
    measures    \* calls of measure since the row's fields were last written

vars == <<row, last, measures>>

Did(op, block, thrown, result) ==
    [op |-> op, block |-> block, thrown |-> thrown, result |-> result]

\* The measurables the render pass puts on a row of each class.
Pool(type) ==
    CASE type = "top row" -> InRowSpacers \cup RoundCorners \cup Hats
      [] type = "bottom row" ->
             InRowSpacers \cup RoundCorners \cup NextConnections
      [] type = "input row" ->
             InRowSpacers \cup Fields \cup StatementInputs
                 \cup ExternalValueInputs
      [] type = "row" -> InRowSpacers \cup Fields
      [] OTHER -> {}

Init ==
    /\ row \in {Row, TopRow, BottomRow, InputRow}
                 \cup {SpacerRow(h, sp.width, sp) :
                          h \in Dims, sp \in InRowSpacers}
    /\ last = Did("new", null, "", 0)
    /\ measures = 0

\* The render pass fills a row before it measures it: it writes no field of
\* a row it has just measured.
Filling == last.op # "measure"

\* The render pass appends a measurable to row.elements.
PushElement(elem) ==
    /\ Filling
    /\ Len(row.elements) < MaxElems
    /\ elem \in Pool(row.type)
    /\ row' = [row EXCEPT !.elements = Push(@, elem)]
    /\ last' = Did("push", null, "", 0)
    /\ measures' = 0

\* The render pass sets row.minWidth.
SetMinWidth(w) ==
    /\ Filling
    /\ "minWidth" \in DOMAIN row
    /\ row.minWidth # w
    /\ row' = [row EXCEPT !.minWidth = w]
    /\ last' = Did("set", null, "", 0)
    /\ measures' = 0

\* The render pass sets row.minHeight.
SetMinHeight(h) ==
    /\ Filling
    /\ "minHeight" \in DOMAIN row
    /\ row.minHeight # h
    /\ row' = [row EXCEPT !.minHeight = h]
    /\ last' = Did("set", null, "", 0)
    /\ measures' = 0

TopRowPopulateCall(b) ==
    /\ row.type = "top row"
    /\ Len(row.elements) + 2 <= MaxElems
    /\ row' = TopRowPopulate(row, b)
    /\ last' = Did("populate", b, "", 0)
    /\ measures' = 0

BottomRowPopulateCall(b) ==
    /\ row.type = "bottom row"
    /\ Len(row.elements) + 2 <= MaxElems
    /\ row' = BottomRowPopulate(row, b)
    /\ last' = Did("populate", b, "", 0)
    /\ measures' = 0

MeasureCall(type) ==
    /\ row.type = type
    /\ measures < MaxMeasures
    /\ row' = Measure(row).row
    /\ last' = Did("measure", null, Measure(row).thrown, 0)
    /\ measures' = measures + 1

RowMeasureCall == MeasureCall("row")
TopRowMeasureCall == MeasureCall("top row")
BottomRowMeasureCall == MeasureCall("bottom row")
SpacerRowMeasureCall == MeasureCall("between-row spacer")
InputRowMeasureCall == MeasureCall("input row")

GetFirstSpacerCall ==
    /\ last' = Did("getFirstSpacer", null, "", GetFirstSpacer(row))
    /\ UNCHANGED <<row, measures>>

GetLastSpacerCall ==
    /\ last' = Did("getLastSpacer", null, "", GetLastSpacer(row))
    /\ UNCHANGED <<row, measures>>

\* The render pass: construction, populate, the elements and minimum sizes
\* it writes, and measure.
Next ==
    \/ \E elem \in Pool(row.type) : PushElement(elem)
    \/ \E w \in Dims : SetMinWidth(w)
    \/ \E h \in Dims : SetMinHeight(h)
    \/ \E b \in TopRowBlocks : TopRowPopulateCall(b)
    \/ \E b \in BottomRowBlocks : BottomRowPopulateCall(b)
    \/ RowMeasureCall
    \/ TopRowMeasureCall
    \/ BottomRowMeasureCall
    \/ SpacerRowMeasureCall
    \/ InputRowMeasureCall

Spec == Init /\ [][Next]_vars

\* The drawing stage's look-ups on rows the render pass filled.
NextSpacers ==
    \/ \E elem \in Pool(row.type) : PushElement(elem)
    \/ \E b \in TopRowBlocks : TopRowPopulateCall(b)
    \/ \E b \in BottomRowBlocks : BottomRowPopulateCall(b)
    \/ GetFirstSpacerCall
    \/ GetLastSpacerCall

SpecSpacers == Init /\ [][NextSpacers]_vars

-----------------------------------------------------------------------------
(* Vocabulary of the properties. *)

Measured == {"top row", "bottom row", "input row"}
Concrete == Measured \cup {"between-row spacer"}

\* measure has run, and nothing was written to the row since.
JustMeasured == measures >= 1 /\ last.thrown = ""

RECURSIVE SumWidths(_)
SumWidths(elements) ==
    IF elements = <<>> THEN 0
    ELSE Head(elements).width + SumWidths(Tail(elements))

MaxOf(S) == CHOOSE m \in S : \A x \in S : x <= m

\* The largest of minHeight and the heights of the non-spacer elements.
MaxHeight(r) ==
    MaxOf({r.minHeight} \cup
          {r.elements[i].height :
              i \in {j \in 1 .. Len(r.elements) : ~r.elements[j].spacer}})

\* The type of element whose height a row adds instead of comparing.
Raising(r) ==
    CASE r.type = "top row" -> "hat"
      [] r.type = "bottom row" -> "next connection"
      [] OTHER -> "no such element"

HasRaising(r) ==
    \E i \in 1 .. Len(r.elements) :
        ~r.elements[i].spacer /\ r.elements[i].type = Raising(r)

RECURSIVE SumRaisingHeights(_, _)
SumRaisingHeights(elements, type) ==
    IF elements = <<>> THEN 0
    ELSE (IF ~Head(elements).spacer /\ Head(elements).type = type
            THEN Head(elements).height ELSE 0)
         + SumRaisingHeights(Tail(elements), type)

\* Every connected external value input is at least as wide as its tab.
TabsFit(r) ==
    \A i \in 1 .. Len(r.elements) :
        LET elem == r.elements[i]
        IN  (elem.type = "external value input"
               /\ elem.connectedBlockWidth # 0)
              => elem.connectionWidth <= elem.connectedBlockWidth

PermutationsOf(n) ==
    {f \in [1 .. n -> 1 .. n] : \A i, j \in 1 .. n : i # j => f[i] # f[j]}

Permute(elements, f) == [i \in 1 .. Len(elements) |-> elements[f[i]]]

\* The row measured with its elements in another order.
Reordered(r, f) == Measure([r EXCEPT !.elements = Permute(@, f)]).row

Field(r, name) == IF name \in DOMAIN r THEN r[name] ELSE 0

Layout(r) ==
    <<r.width, r.height, r.widthWithConnectedBlocks, Field(r, "startY"),
      Field(r, "overhangY")>>

TypesOf(elements) == [i \in 1 .. Len(elements) |-> elements[i].type]

-----------------------------------------------------------------------------
(* C1 *)

\* C1: every call of measure on a base Row throws 'Unexpected attempt to
\* measure a base Row.' and leaves every field of the row as it was; a call
\* of measure on a TopRow, BottomRow, SpacerRow or InputRow never throws
\* that error, whatever elements the row holds.
C1_BaseRowMeasureThrows ==
    [][measures' = measures + 1 =>
          IF row.type = "row"
            THEN last'.thrown = BaseRowError /\ row' = row
            ELSE row.type \in Concrete /\ last'.thrown # BaseRowError]_vars

\* A base Row holding elements was measured, and the call threw.
C1_Witness ==
    /\ row.type = "row"
    /\ Len(row.elements) >= 1
    /\ last.op = "measure"
    /\ last.thrown = BaseRowError

-----------------------------------------------------------------------------
(* C2 *)

\* C2: after measure on a TopRow, BottomRow or InputRow, width is minWidth
\* plus the sum of the widths of all elements, spacers included; for a
\* TopRow and a BottomRow widthWithConnectedBlocks equals that width.
C2_WidthIsMinWidthPlusSum ==
    (JustMeasured /\ row.type \in Measured) =>
        /\ row.width = row.minWidth + SumWidths(row.elements)
        /\ row.type \in {"top row", "bottom row"} =>
               row.widthWithConnectedBlocks = row.width

\* A measured top row with a positive minWidth, a spacer of positive width
\* and a non-spacer of positive width.
C2_Witness ==
    /\ JustMeasured
    /\ row.type = "top row"
    /\ row.minWidth > 0
    /\ \E i, j \in 1 .. Len(row.elements) :
          /\ row.elements[i].spacer /\ row.elements[i].width > 0
          /\ ~row.elements[j].spacer /\ row.elements[j].width > 0

-----------------------------------------------------------------------------
(* C3 *)

\* C3 as stated: after measure on a TopRow, BottomRow or InputRow, height is
\* the maximum of minHeight and the heights of the non-spacer elements.
C3_HeightIsMax ==
    (JustMeasured /\ row.type \in Measured) => row.height = MaxHeight(row)

\* C3, amended: after measure, height is that maximum for an InputRow, for
\* a TopRow holding no hat and for a BottomRow holding no next connection.
\* A hat of a TopRow (a next connection of a BottomRow) adds its height to
\* the height reached so far, so the height is at least that maximum and at
\* most that maximum plus the heights of the hats (next connections).
\* Spacer heights never contribute.
C3_HeightIsMaxRaisedByHats ==
    (JustMeasured /\ row.type \in Measured) =>
        /\ MaxHeight(row) <= row.height
        /\ row.height <= MaxHeight(row)
                           + SumRaisingHeights(row.elements, Raising(row))

\* A measured top row whose hat raised it above the tallest element, next to
\* a spacer taller than the row's other elements.
C3_Witness ==
    /\ JustMeasured
    /\ row.type = "top row"
    /\ HasRaising(row)
    /\ row.height > MaxHeight(row)
    /\ \E i \in 1 .. Len(row.elements) : row.elements[i].spacer

-----------------------------------------------------------------------------
(* C4 *)

\* C4 as stated: with non-negative minimum sizes and non-negative element
\* sizes, after any sequence of populate and measure calls every numeric
\* layout field of a row (width, height, widthWithConnectedBlocks, startY
\* of a TopRow, overhangY of a BottomRow) is non-negative.
C4_LayoutNonNegative ==
    \A i \in 1 .. 5 : Layout(row)[i] >= 0

\* C4, amended: under the same conditions width, height, startY and
\* overhangY are non-negative, and so is widthWithConnectedBlocks of every
\* row but an InputRow; widthWithConnectedBlocks of an InputRow is
\* non-negative when no connected external value input has a
\* connectionWidth larger than its connectedBlockWidth.
C4_LayoutNonNegativeWhenTabsFit ==
    /\ row.width >= 0
    /\ row.height >= 0
    /\ Field(row, "startY") >= 0
    /\ Field(row, "overhangY") >= 0
    /\ (row.type # "input row" \/ TabsFit(row)) =>
           row.widthWithConnectedBlocks >= 0

\* A measured input row holding a connected external value input whose tab
\* is narrower than the connected block and not of width 0.
C4_Witness ==
    /\ JustMeasured
    /\ row.type = "input row"
    /\ TabsFit(row)
    /\ \E i \in 1 .. Len(row.elements) :
          /\ row.elements[i].type = "external value input"
          /\ row.elements[i].connectionWidth > 0
          /\ row.elements[i].connectedBlockWidth
                > row.elements[i].connectionWidth

-----------------------------------------------------------------------------
(* C8 *)

\* C8 as stated: once a row of a concrete type is measured (a SpacerRow:
\* once it is built), widthWithConnectedBlocks is at least width.
C8_ConnectedWidthAtLeastWidth ==
    (row.type = "between-row spacer"
        \/ (JustMeasured /\ row.type \in Measured)) =>
        row.widthWithConnectedBlocks >= row.width

\* C8, amended: after measure, widthWithConnectedBlocks is at least width
\* for a TopRow and a BottomRow, and for an InputRow in which no connected
\* external value input has a connectionWidth larger than its
\* connectedBlockWidth.  A SpacerRow's widthWithConnectedBlocks is 0
\* whatever its width, before and after its measure.
C8_ConnectedWidthAtLeastWidthWhenTabsFit ==
    /\ (JustMeasured /\ row.type \in {"top row", "bottom row"}) =>
           row.widthWithConnectedBlocks >= row.width
    /\ (JustMeasured /\ row.type = "input row" /\ TabsFit(row)) =>
           row.widthWithConnectedBlocks >= row.width
    /\ row.type = "between-row spacer" => row.widthWithConnectedBlocks = 0

\* A measured input row of positive width that a connected statement input
\* makes wider with its connected blocks than without.
C8_Witness ==
    /\ JustMeasured
    /\ row.type = "input row"
    /\ TabsFit(row)
    /\ row.width > 0
    /\ row.widthWithConnectedBlocks > row.width

-----------------------------------------------------------------------------
(* C9 *)

\* C9: with elements, minWidth and minHeight unchanged, a second or later
\* call of measure on a TopRow, BottomRow, InputRow or SpacerRow leaves
\* width, height, widthWithConnectedBlocks, startY and overhangY as the
\* first call set them.
C9_MeasureIdempotent ==
    [][(measures >= 1 /\ measures' = measures + 1
          /\ row.type \in Concrete) => Layout(row') = Layout(row)]_vars

\* A top row with a hat, a positive minWidth and a positive height,
\* measured twice in a row.
C9_Witness ==
    /\ measures >= 2
    /\ row.type = "top row"
    /\ HasRaising(row)
    /\ row.minWidth > 0
    /\ row.height > 0

-----------------------------------------------------------------------------
(* C10 *)

\* C10 as stated: for a TopRow, BottomRow or InputRow, measure yields the
\* same width, height and widthWithConnectedBlocks for every order of the
\* same elements, also when they contain a hat or a next connection.
C10_OrderIndependent ==
    (JustMeasured /\ row.type \in Measured) =>
        \A f \in PermutationsOf(Len(row.elements)) :
            LET other == Reordered(row, f)
            IN  /\ other.width = row.width
                /\ other.height = row.height
                /\ other.widthWithConnectedBlocks
                     = row.widthWithConnectedBlocks

\* C10, amended: for a TopRow, BottomRow or InputRow, measure yields the
\* same width and widthWithConnectedBlocks for every order of the same
\* elements; it yields the same height for every order when the row is an
\* InputRow, a TopRow holding no hat or a BottomRow holding no next
\* connection.
C10_OrderIndependentButRaisedHeight ==
    (JustMeasured /\ row.type \in Measured) =>
        \A f \in PermutationsOf(Len(row.elements)) :
            LET other == Reordered(row, f)
            IN  /\ other.width = row.width
                /\ other.widthWithConnectedBlocks
                     = row.widthWithConnectedBlocks
                /\ ~HasRaising(row) => other.height = row.height

\* A measured input row holding a field and a connected input of different
\* widths and heights.
C10_Witness ==
    /\ JustMeasured
    /\ row.type = "input row"
    /\ Len(row.elements) = 2
    /\ row.elements[1].width # row.elements[2].width
    /\ row.elements[1].height # row.elements[2].height
    /\ row.elements[1].type = "field"
    /\ row.elements[2].isInput
    /\ row.elements[2].connectedBlockWidth > 0

-----------------------------------------------------------------------------
(* C5 *)

\* The elements populate appended in the step.
Appended == SubSeq(row'.elements, Len(row.elements) + 1, Len(row'.elements))

\* The block has a hat: block.hat is 'cap', or it is unset and START_HAT on.
WearsHat(b) == b.hat = "cap" \/ (b.hat = "" /\ b.START_HAT)

\* populate has just run on a top row that held no element before.
TopRowJustPopulated ==
    /\ row.type = "top row"
    /\ last.op = "populate"
    /\ Len(row.elements) =
          (IF WearsHat(last.block) \/ last.block.previousConnection
             THEN 2 ELSE 1)

\* C5: when TopRow.populate runs for a block with a hat (block.hat is 'cap',
\* or block.hat is unset and START_HAT is on), the row gets a Hat element,
\* startY becomes that hat's startY and no previous connection is added:
\* hasPreviousConnection and connection stay as they were (false and null
\* on a new row) even if the block has a previous connection; a following
\* measure leaves startY equal to the hat's startY.  When the block has no
\* hat, populate leaves startY alone, and startY is 0 after populate and
\* measure on a new row.
C5_HatSetsStartY ==
    [][/\ (row.type = "top row" /\ last'.op = "populate") =>
             IF WearsHat(last'.block)
               THEN /\ Len(Appended) = 2
                    /\ Appended[2].type = "hat"
                    /\ row'.startY = Appended[2].startY
                    /\ Appended[1].type # "previous connection"
                    /\ row'.hasPreviousConnection = row.hasPreviousConnection
                    /\ row'.connection = row.connection
                    /\ row = TopRow =>
                          /\ ~row'.hasPreviousConnection
                          /\ row'.connection = null
               ELSE /\ row'.startY = row.startY
                    /\ \A i \in 1 .. Len(Appended) : Appended[i].type # "hat"
       /\ (TopRowJustPopulated /\ measures' = measures + 1) =>
             IF WearsHat(last.block)
               THEN row'.startY = row.elements[2].startY
               ELSE row'.startY = 0]_vars

\* A new top row was populated for a block with a hat and a previous
\* connection, then measured: it holds a corner and the hat, and starts at
\* the hat's startY.
C5_Witness ==
    /\ row.type = "top row"
    /\ last.op = "measure"
    /\ TypesOf(row.elements) = <<"square corner", "hat">>
    /\ ~row.hasPreviousConnection
    /\ row.connection = null
    /\ row.startY = row.elements[2].startY
    /\ row.startY > 0

-----------------------------------------------------------------------------
(* C7 *)

\* populate has just run on a bottom row that held no element before.
BottomRowJustPopulated ==
    /\ row.type = "bottom row"
    /\ last.op = "populate"
    /\ Len(row.elements) = (IF last.block.nextConnection THEN 2 ELSE 1)

\* C7: after BottomRow.populate on a new BottomRow, hasNextConnection is
\* true exactly when the block has a next connection, exactly when
\* connection is non-null, exactly when the elements contain a next
\* connection; the first element is the row's only corner, square exactly
\* when the block has an output connection or a next block and round
\* otherwise.  After a following measure, overhangY is the next
\* connection's height when the row has one and 0 otherwise.
C7_BottomRowPopulate ==
    [][/\ (row = BottomRow /\ last'.op = "populate") =>
             LET types == TypesOf(row'.elements)
                 corners == {i \in 1 .. Len(types) :
                                types[i] \in {"square corner",
                                              "round corner"}}
                 nexts == {i \in 1 .. Len(types) :
                              types[i] = "next connection"}
             IN  /\ row'.hasNextConnection = last'.block.nextConnection
                 /\ row'.hasNextConnection = (row'.connection # null)
                 /\ row'.hasNextConnection = (nexts # {})
                 /\ corners = {1}
                 /\ types[1] =
                      (IF last'.block.outputConnection \/ last'.block.nextBlock
                         THEN "square corner" ELSE "round corner")
       /\ (BottomRowJustPopulated /\ measures' = measures + 1) =>
             row'.overhangY =
                (IF row.hasNextConnection
                   THEN row.connection.height ELSE 0)]_vars

\* A new bottom row was populated for a block with a next connection and no
\* next block, then measured: a round corner, the next connection, and an
\* overhang of the connection's height.
C7_Witness ==
    /\ row.type = "bottom row"
    /\ last.op = "measure"
    /\ TypesOf(row.elements) = <<"round corner", "next connection">>
    /\ row.hasNextConnection
    /\ row.connection = row.elements[2]
    /\ row.overhangY = row.connection.height
    /\ row.overhangY > 0

-----------------------------------------------------------------------------
(* C6 *)

\* The indexes of the spacers of a row.
SpacerIndexes(r) == {i \in 1 .. Len(r.elements) : r.elements[i].spacer}

MinOf(S) == CHOOSE m \in S : \A x \in S : m <= x

\* C6: getFirstSpacer returns the lowest-index element of the row whose
\* isSpacer() is true and getLastSpacer the highest-index one; each returns
\* null when the row holds no spacer, and neither returns an element that
\* is not a spacer.
C6_SpacerLookup ==
    /\ last.op = "getFirstSpacer" =>
          last.result = (IF SpacerIndexes(row) = {} THEN 0
                         ELSE MinOf(SpacerIndexes(row)))
    /\ last.op = "getLastSpacer" =>
          last.result = (IF SpacerIndexes(row) = {} THEN 0
                         ELSE MaxOf(SpacerIndexes(row)))

=============================================================================
